---- MODULE Spec2Model ----
(***************************************************************************)
(* A model of textutils.py (vim-latex): JustifyLine, FillParagraphs,       *)
(* FormatTable and VertCatString.                                          *)
(*                                                                         *)
(* A Python string is modelled as a sequence of one-character strings, a   *)
(* Python list as a sequence, so that joining, splitting and padding are   *)
(* computed character by character as the library functions compute them.  *)
(* List indices that the source uses (the gap indices of JustifyLine, the  *)
(* keys of maxlengths) keep their 0-based values.                          *)
(***************************************************************************)
EXTENDS Integers, Sequences, FiniteSets, TLC

(***************************************************************************)
(* Bounds of the model.                                                    *)
(***************************************************************************)
MaxTextLen == 6      \* longest text handed to FillParagraphs
MaxWidth == 4        \* widest target width handed to FillParagraphs
MaxWords == 3        \* most words in a line handed directly to JustifyLine
MaxWordLen == 2      \* longest word in a line handed directly to JustifyLine
MaxJWidth == 8       \* widest target width handed directly to JustifyLine
MaxBlockLen == 3     \* longest block handed directly to VertCatString
MaxWidth1 == 3       \* widest width1 handed directly to VertCatString
MaxRows == 2         \* most rows in a table handed to FormatTable
MaxColWidth == 4     \* largest COL_WIDTH handed to FormatTable

SP == " "
NL == "\n"
TextAlphabet == {"a", SP, NL}

(***************************************************************************)
(* Library functions of Python that the source calls.                      *)
(***************************************************************************)
Max(a, b) == IF a >= b THEN a ELSE b

Min(a, b) == IF a <= b THEN a ELSE b

\* string.whitespace, as far as the model's alphabets go
IsSpace(ch) == ch \in {SP, NL, "\t"}

\* sep.join(list)
RECURSIVE Join(_, _)
Join(list, sep) ==
    IF list = <<>> THEN <<>>
    ELSE IF Len(list) = 1 THEN list[1]
    ELSE list[1] \o sep \o Join(Tail(list), sep)

\* " " * n  (the empty string when n <= 0)
Spaces(n) == [k \in 1..n |-> SP]

\* range(n): the list 0, 1, ..., n-1 (empty when n <= 0)
Range(n) == [k \in 1..n |-> k - 1]

\* the outcomes of random.shuffle(list): every ordering of the list
Shuffles(list) ==
    LET n == Len(list)
        Perms == {f \in [1..n -> 1..n] : \A a, b \in 1..n : f[a] = f[b] => a = b}
    IN  {[k \in 1..n |-> list[f[k]]] : f \in Perms}

\* the length of the run of newlines that starts at position k of s
RECURSIVE NewlineRun(_, _)
NewlineRun(s, k) ==
    IF k > Len(s) \/ s[k] # NL THEN 0 ELSE 1 + NewlineRun(s, k + 1)

\* re.split(r'\n\n+', s), scanning from position k with piece cur under way
RECURSIVE ReSplitFrom(_, _, _)
ReSplitFrom(s, k, cur) ==
    IF k > Len(s) THEN <<cur>>
    ELSE IF NewlineRun(s, k) >= 2
         THEN <<cur>> \o ReSplitFrom(s, k + NewlineRun(s, k), <<>>)
         ELSE ReSplitFrom(s, k + 1, Append(cur, s[k]))

ReSplitParagraphs(s) == ReSplitFrom(s, 1, <<>>)

\* s.lstrip() and s.rstrip()
RECURSIVE LStrip(_)
LStrip(s) == IF s # <<>> /\ IsSpace(Head(s)) THEN LStrip(Tail(s)) ELSE s

RECURSIVE RStrip(_)
RStrip(s) ==
    IF s # <<>> /\ IsSpace(s[Len(s)]) THEN RStrip(SubSeq(s, 1, Len(s) - 1)) ELSE s

\* s.strip()
Strip(s) == RStrip(LStrip(s))

\* s.split(): the maximal runs of non-whitespace characters
RECURSIVE SplitFrom(_, _, _)
SplitFrom(s, k, cur) ==
    LET piece == IF cur = <<>> THEN <<>> ELSE <<cur>>
    IN  IF k > Len(s) THEN piece
        ELSE IF IsSpace(s[k]) THEN piece \o SplitFrom(s, k + 1, <<>>)
        ELSE SplitFrom(s, k + 1, Append(cur, s[k]))

Split(s) == SplitFrom(s, 1, <<>>)

\* s.split("\n"): the pieces between single newlines, empty ones kept
RECURSIVE SplitLinesFrom(_, _, _)
SplitLinesFrom(s, k, cur) ==
    IF k > Len(s) THEN <<cur>>
    ELSE IF s[k] = NL THEN <<cur>> \o SplitLinesFrom(s, k + 1, <<>>)
    ELSE SplitLinesFrom(s, k + 1, Append(cur, s[k]))

SplitLines(s) == SplitLinesFrom(s, 1, <<>>)

(***************************************************************************)
(* The state: the locals of the running functions, under the names the     *)
(* source gives them, the position in the code (pc), the function that was *)
(* called from outside (entry), and what it returned (result).             *)
(***************************************************************************)
VARIABLES
    entry,        \* the function called from outside
    pc,           \* the position in the code
    result,       \* the value returned to the outside caller
    text,         \* FillParagraphs: text
    width,        \* FillParagraphs / JustifyLine: width
    justify,      \* FillParagraphs: justify
    paragraphs,   \* FillParagraphs: paragraphs
    p,            \* FillParagraphs: the loop index i of the loop over paragraphs
    words,        \* FillParagraphs: words
    line,         \* FillParagraphs: line; the same list object is JustifyLine's line
    new_par,      \* FillParagraphs: new_par
    i,            \* JustifyLine: i, the list of gap indices still to be used
    round,        \* 1 in a first call of FillParagraphs, 2 when its output is filled again
    firstPars,    \* the paragraphs the first call produced, kept for the second
    tableText,    \* FormatTable: tableText
    ROW_SPACE,    \* FormatTable: ROW_SPACE
    COL_SPACE,    \* FormatTable: COL_SPACE
    COL_WIDTH,    \* FormatTable: COL_WIDTH
    ft_justify,   \* FormatTable: justify
    maxlengths,   \* FormatTable: maxlengths, a dictionary with the keys 0, 1, ...
    formattedTable, \* FormatTable: formattedTable
    r,            \* FormatTable: the number of rows the running loop is done with
    c,            \* FormatTable: the number of cells of the row that map is done with
    retTableText, \* FormatTable: retTableText
    string1,      \* VertCatString: string1
    width1,       \* VertCatString: width1
    string2       \* VertCatString: string2

tableArgs == <<tableText, ROW_SPACE, COL_SPACE, COL_WIDTH, ft_justify>>

catArgs == <<string1, width1, string2>>

tableVars == <<tableArgs, maxlengths, formattedTable, r, c, retTableText, catArgs>>

vars == <<entry, pc, result, text, width, justify, paragraphs, p, words, line,
          new_par, i, round, firstPars, tableVars>>

\* the value of result while the called function has not returned
None == <<"None">>

\* width1 is None (the empty tuple) or a number n (the tuple <<n>>)
NoWidth == <<>>

fillVars == <<text, justify, paragraphs, p, words, new_par, round, firstPars>>

(***************************************************************************)
(* JustifyLine(line, width)                                                *)
(***************************************************************************)
\* the comparison of line 19 with <= for <: the loop runs once too often
NotLongEnough_OneMore(ln, w) == Len(Join(ln, <<SP>>)) <= w

\* line 19: len(' '.join(line)) < width
NotLongEnough(ln, w) == Len(Join(ln, <<SP>>)) < w

\* line 23 without the max(1, ...): no index at all for a line of one word
GapIndices_NoMax(ln) == Range(Len(ln) - 1)

\* line 23: range(max(1, len(line)-1))
GapIndices(ln) == Range(Max(1, Len(ln) - 1))

\* lines 20-25 with a fresh shuffle in every iteration, exhausted list or not
Refilled_EveryTime(pool, ln) == Shuffles(GapIndices(ln))

\* lines 20-25: the index list the iteration works with
Refilled(pool, ln) == IF pool = <<>> THEN Shuffles(GapIndices(ln)) ELSE {pool}

\* lines 17-27: one iteration of the loop that adds a space
JustifyStep ==
    /\ pc = "jl_while"
    /\ NotLongEnough(line, width)
    /\ \E pool \in Refilled(i, line) :
         IF pool # <<>> /\ pool[1] < Len(line)
         THEN /\ line' = [line EXCEPT ![pool[1] + 1] = Append(@, SP)]
              /\ i' = Tail(pool)
              /\ pc' = "jl_while"
         ELSE \* i.pop(0) of an empty list, or line[k] past the end of line
              /\ pc' = "IndexError"
              /\ i' = pool
              /\ line' = line
    /\ UNCHANGED tableVars
    /\ UNCHANGED <<entry, result, width, fillVars>>

\* lines 28-30, for a call from outside
JustifyReturn ==
    /\ pc = "jl_while"
    /\ entry = "JustifyLine"
    /\ ~NotLongEnough(line, width)
    /\ result' = Join(line, <<SP>>)
    /\ pc' = "done"
    /\ UNCHANGED tableVars
    /\ UNCHANGED <<entry, width, line, i, fillVars>>

(***************************************************************************)
(* FillParagraphs(text, width, justify)                                    *)
(***************************************************************************)
\* line 44
FillSplit ==
    /\ pc = "fp_call"
    /\ paragraphs' = ReSplitParagraphs(text)
    /\ p' = 0
    /\ pc' = "fp_for"
    /\ UNCHANGED tableVars
    /\ UNCHANGED <<entry, result, text, width, justify, words, line, new_par, i,
                   round, firstPars>>

\* lines 45-48: the next paragraph is split into words
FillNextParagraph ==
    /\ pc = "fp_for"
    /\ p < Len(paragraphs)
    /\ words' = Split(Strip(paragraphs[p + 1]))
    /\ line' = <<>>
    /\ new_par' = <<>>
    /\ pc' = "fp_while"
    /\ UNCHANGED tableVars
    /\ UNCHANGED <<entry, result, text, width, justify, paragraphs, p, i, round,
                   firstPars>>

\* line 51 measuring the line without the word that is to be added
LineFull_WithoutNextWord(ln, ws, w) == Len(Join(ln, <<SP>>)) > w /\ ln # <<>>

\* line 51: len(' '.join(line + [words[0]])) > width and line
LineFull(ln, ws, w) == Len(Join(Append(ln, ws[1]), <<SP>>)) > w /\ ln # <<>>

\* lines 50-52, 56-58: the full line is added to the paragraph as it is
FillFlushLine ==
    /\ pc = "fp_while"
    /\ words # <<>>
    /\ LineFull(line, words, width)
    /\ justify = 0
    /\ new_par' = Append(new_par, Join(line, <<SP>>))
    /\ line' = <<>>
    /\ UNCHANGED tableVars
    /\ UNCHANGED <<entry, pc, result, text, width, justify, paragraphs, p, words,
                   i, round, firstPars>>

\* lines 50-55, 16: the full line is handed to JustifyLine
FillCallJustify ==
    /\ pc = "fp_while"
    /\ words # <<>>
    /\ LineFull(line, words, width)
    /\ justify # 0
    /\ i' = <<>>
    /\ pc' = "jl_while"
    /\ UNCHANGED tableVars
    /\ UNCHANGED <<entry, result, width, line, fillVars>>

\* lines 28-30, 55, 58: JustifyLine returns to FillParagraphs
FillJustified ==
    /\ pc = "jl_while"
    /\ entry # "JustifyLine"
    /\ ~NotLongEnough(line, width)
    /\ new_par' = Append(new_par, Join(line, <<SP>>))
    /\ line' = <<>>
    /\ pc' = "fp_while"
    /\ UNCHANGED tableVars
    /\ UNCHANGED <<entry, result, text, width, justify, paragraphs, p, words, i,
                   round, firstPars>>

\* lines 50-51, 59-61: the next word is appended to the line
FillAppendWord ==
    /\ pc = "fp_while"
    /\ words # <<>>
    /\ ~LineFull(line, words, width)
    /\ line' = Append(line, Head(words))
    /\ words' = Tail(words)
    /\ UNCHANGED tableVars
    /\ UNCHANGED <<entry, pc, result, text, width, justify, paragraphs, p,
                   new_par, i, round, firstPars>>

\* line 64 treating the last line like the others: stretched when justify is set
LastLine_Stretched(ln, w, j) ==
    IF j # 0 /\ ln # <<>>
    THEN Join(ln, <<SP>>) \o Spaces(w - Len(Join(ln, <<SP>>)))
    ELSE Join(ln, <<SP>>)

\* line 64: the last line of a paragraph
LastLine(ln, w, j) == Join(ln, <<SP>>)

\* lines 62-68: the last line ends the paragraph, which replaces the original
FillLastLine ==
    /\ pc = "fp_while"
    /\ words = <<>>
    /\ new_par' = Append(new_par, LastLine(line, width, justify))
    /\ line' = <<>>
    /\ paragraphs' = [paragraphs EXCEPT ![p + 1] = Join(new_par', <<NL>>)]
    /\ p' = p + 1
    /\ pc' = "fp_for"
    /\ UNCHANGED tableVars
    /\ UNCHANGED <<entry, result, text, width, justify, words, i, round, firstPars>>

\* lines 45, 70, for a call from outside
FillReturn ==
    /\ pc = "fp_for"
    /\ p = Len(paragraphs)
    /\ entry = "FillParagraphs"
    /\ result' = Join(paragraphs, <<NL, NL>>)
    /\ pc' = "done"
    /\ UNCHANGED tableVars
    /\ UNCHANGED <<entry, text, width, justify, paragraphs, p, words, line,
                   new_par, i, round, firstPars>>

\* a second call FillParagraphs(FillParagraphs(text, width, 0), width, 0)
FillAgain ==
    /\ pc = "done"
    /\ entry = "FillParagraphs"
    /\ justify = 0
    /\ round = 1
    /\ text' = result
    /\ firstPars' = paragraphs
    /\ round' = 2
    /\ pc' = "fp_call"
    /\ UNCHANGED tableVars
    /\ UNCHANGED <<entry, result, width, justify, paragraphs, p, words, line,
                   new_par, i>>

(***************************************************************************)
(* VertCatString(string1, width1, string2)                                 *)
(***************************************************************************)
\* lines 157-160: the width of the widest line, starting from -1
RECURSIVE WidestFrom(_, _, _)
WidestFrom(lines, k, w) ==
    IF k > Len(lines) THEN w ELSE WidestFrom(lines, k + 1, Max(w, Len(lines[k])))

\* line 167 with the padding left out
PadLine_Unpadded(l, w) == l

\* line 167: lines1[i] + " "*(width1 - len(lines1[i]))
PadLine(l, w) == l \o Spaces(w - Len(l))

\* lines 154-155, 162-174, width1 being a number
VertCatString(s1, w, s2) ==
    LET lines1 == SplitLines(s1)
        lines2 == SplitLines(s2)
        left(k) == IF k > Len(lines1) THEN Spaces(w) ELSE lines1[k]
        right(k) == IF k > Len(lines2) THEN <<>> ELSE lines2[k]
        retlines == [k \in 1..Max(Len(lines1), Len(lines2)) |->
                        PadLine(left(k), w) \o right(k)]
    IN  Join(retlines, <<NL>>)

\* a call of VertCatString from outside; lines 157-160: a width1 of None is
\* replaced by the width of the widest line of string1
VertCatCall ==
    /\ pc = "vc_call"
    /\ entry = "VertCatString"
    /\ result' = VertCatString(string1,
                               IF width1 = NoWidth
                               THEN WidestFrom(SplitLines(string1), 1, -1)
                               ELSE width1[1],
                               string2)
    /\ pc' = "done"
    /\ UNCHANGED <<entry, text, width, justify, paragraphs, p, words, line,
                   new_par, i, round, firstPars, tableVars>>

(***************************************************************************)
(* FormatTable(tableText, ROW_SPACE, COL_SPACE, COL_WIDTH, justify)        *)
(***************************************************************************)
\* maxlengths.get(k, -1)
DictGet(d, k) == IF k \in DOMAIN d THEN d[k] ELSE -1

\* lines 107-110 with the length of the row at hand in place of the maximum
LongestSoFar_ThisRow(lengths, d, k) == lengths[k + 1]

\* line 110: max(lengths[i], maxlengths.get(i, -1))
LongestSoFar(lengths, d, k) == Max(lengths[k + 1], DictGet(d, k))

\* lines 107-110: maxlengths after one row
WithRow(d, row) ==
    LET lengths == [k \in 1..Len(row) |-> Len(row[k])]
    IN  [k \in (DOMAIN d) \cup {Range(Len(row))[j] : j \in 1..Len(row)} |->
            IF k < Len(lengths) THEN LongestSoFar(lengths, d, k) ELSE d[k]]

\* lines 105-110: maxlengths after the rows from the k-th on
RECURSIVE WithRowsFrom(_, _, _)
WithRowsFrom(d, table, k) ==
    IF k > Len(table) THEN d ELSE WithRowsFrom(WithRow(d, table[k]), table, k + 1)

\* lines 113-114: the keys below len(maxlengths) are capped
Capped(d, cap) ==
    [k \in DOMAIN d |-> IF k < Cardinality(DOMAIN d) THEN Min(d[k], cap) ELSE d[k]]

\* lines 129-133: the loop over the cells after the first, from index k on
RECURSIVE RowTextFrom(_, _, _, _, _, _)
RowTextFrom(row, k, rowtext, w, d, space) ==
    IF k >= Len(row) THEN rowtext
    ELSE RowTextFrom(row, k + 1,
                     VertCatString(VertCatString(rowtext, w, Spaces(space)),
                                   w + space, row[k + 1]),
                     w + space + d[k], d, space)

\* lines 127-133
RowText(row, d, space) == RowTextFrom(row, 1, row[1], d[0], d, space)

\* string.join(s, ""), s a string: its characters joined by the empty string
JoinChars(s) == Join([k \in 1..Len(s) |-> <<s[k]>>], <<>>)

\* "\n" * n
Newlines(n) == [k \in 1..n |-> NL]

\* re.sub(r"\n+$", "", s): the newlines that end s are removed
RECURSIVE StripNewlines(_)
StripNewlines(s) ==
    IF s # <<>> /\ s[Len(s)] = NL THEN StripNewlines(SubSeq(s, 1, Len(s) - 1)) ELSE s

fillState == <<text, width, justify, paragraphs, p, words, line, new_par, i,
               round, firstPars>>

\* lines 105-114
TableWidths ==
    /\ pc = "ft_call"
    /\ maxlengths' = Capped(WithRowsFrom(<<>>, tableText, 1), COL_WIDTH)
    /\ pc' = "ft_if"
    /\ UNCHANGED <<entry, result, fillState, tableArgs, formattedTable, r, c,
                   retTableText, catArgs>>

\* lines 116, 122-125
TableAsGiven ==
    /\ pc = "ft_if"
    /\ ft_justify = 0
    /\ formattedTable' = tableText
    /\ retTableText' = <<>>
    /\ r' = 0
    /\ pc' = "ft_render"
    /\ UNCHANGED <<entry, result, fillState, tableArgs, maxlengths, c, catArgs>>

\* lines 116-117
TableJustify ==
    /\ pc = "ft_if"
    /\ ft_justify # 0
    /\ formattedTable' = <<>>
    /\ r' = 0
    /\ pc' = "ft_map"
    /\ UNCHANGED <<entry, result, fillState, tableArgs, maxlengths, c,
                   retTableText, catArgs>>

\* lines 119-121: map starts on the next row
TableMapRow ==
    /\ pc = "ft_map"
    /\ r < Len(tableText)
    /\ formattedTable' = Append(formattedTable, <<>>)
    /\ c' = 0
    /\ pc' = "ft_cell"
    /\ UNCHANGED <<entry, result, fillState, tableArgs, maxlengths, r,
                   retTableText, catArgs>>

\* lines 120-121, 33: map calls FillParagraphs(cell, COL_WIDTH); justify is
\* not passed and takes its default, 0
TableMapCell ==
    /\ pc = "ft_cell"
    /\ c < Len(tableText[r + 1])
    /\ text' = tableText[r + 1][c + 1]
    /\ width' = COL_WIDTH
    /\ justify' = 0
    /\ pc' = "fp_call"
    /\ UNCHANGED <<entry, result, paragraphs, p, words, line, new_par, i, round,
                   firstPars, tableVars>>

\* lines 45, 70, 120: FillParagraphs returns the filled cell to map
TableCellFilled ==
    /\ pc = "fp_for"
    /\ p = Len(paragraphs)
    /\ entry = "FormatTable"
    /\ formattedTable' =
           [formattedTable EXCEPT ![r + 1] = Append(@, Join(paragraphs, <<NL, NL>>))]
    /\ c' = c + 1
    /\ pc' = "ft_cell"
    /\ UNCHANGED <<entry, result, fillState, tableArgs, maxlengths, r,
                   retTableText, catArgs>>

\* lines 119-120: map is done with the row
TableMapRowDone ==
    /\ pc = "ft_cell"
    /\ c = Len(tableText[r + 1])
    /\ r' = r + 1
    /\ pc' = "ft_map"
    /\ UNCHANGED <<entry, result, fillState, tableArgs, maxlengths,
                   formattedTable, c, retTableText, catArgs>>

\* lines 119, 125: all rows are filled
TableMapDone ==
    /\ pc = "ft_map"
    /\ r = Len(tableText)
    /\ retTableText' = <<>>
    /\ r' = 0
    /\ pc' = "ft_render"
    /\ UNCHANGED <<entry, result, fillState, tableArgs, maxlengths,
                   formattedTable, c, catArgs>>

\* lines 126-136: one row is rendered; row[0] of a row without cells raises
\* IndexError
TableRenderRow ==
    /\ pc = "ft_render"
    /\ r < Len(formattedTable)
    /\ IF formattedTable[r + 1] = <<>>
       THEN /\ pc' = "IndexError"
            /\ UNCHANGED <<retTableText, r>>
       ELSE /\ retTableText' =
                   retTableText
                     \o JoinChars(RowText(formattedTable[r + 1], maxlengths, COL_SPACE))
                     \o Newlines(ROW_SPACE)
            /\ r' = r + 1
            /\ pc' = "ft_render"
    /\ UNCHANGED <<entry, result, fillState, tableArgs, maxlengths,
                   formattedTable, c, catArgs>>

\* lines 126, 138
TableReturn ==
    /\ pc = "ft_render"
    /\ r = Len(formattedTable)
    /\ result' = StripNewlines(retTableText)
    /\ pc' = "done"
    /\ UNCHANGED <<entry, fillState, tableVars>>

(***************************************************************************)
(* The calls from outside: FillParagraphs on every text over TextAlphabet  *)
(* of at most MaxTextLen characters, JustifyLine on every list of at most  *)
(* MaxWords words of at most MaxWordLen letters, VertCatString on blocks   *)
(* of at most MaxBlockLen characters, FormatTable on the tables of at most *)
(* MaxRows rows out of TableRows.                                          *)
(***************************************************************************)
\* the defaults of FormatTable's ROW_SPACE and COL_SPACE
ROW_SPACE_DEFAULT == 2

COL_SPACE_DEFAULT == 3

StringsOver(alphabet, n) == UNION {[1..k -> alphabet] : k \in 0..n}

Texts == StringsOver(TextAlphabet, MaxTextLen)

WordLists ==
    UNION {[1..k -> StringsOver({"a"}, MaxWordLen) \ {<<>>}] : k \in 0..MaxWords}

LeftBlocks == StringsOver({"A", "B", NL}, MaxBlockLen)

RightBlocks == StringsOver({"C", "D", NL}, MaxBlockLen)

TableRows ==
    { <<>>,
      << <<"a">> >>,
      << <<>> >>,
      << <<"a">>, <<"b", "b">> >>,
      << <<"c", "c", "c">>, <<"d">> >>,
      << <<"a", SP, "b", "b">> >>,
      << <<>>, <<"a", SP, "b", "b">> >>,
      << <<"a">>, <<"b", "b">>, <<"d">> >> }

Tables == UNION {[1..k -> TableRows] : k \in 0..MaxRows}

\* the variables of the functions that are not running hold empty values
NoFill ==
    /\ text = <<>> /\ justify = 0 /\ round = 0
    /\ paragraphs = <<>> /\ p = 0 /\ words = <<>> /\ new_par = <<>>
    /\ firstPars = <<>>

NoTable ==
    /\ tableText = <<>> /\ ROW_SPACE = 0 /\ COL_SPACE = 0
    /\ COL_WIDTH = 0 /\ ft_justify = 0
    /\ maxlengths = <<>> /\ formattedTable = <<>> /\ r = 0 /\ c = 0
    /\ retTableText = <<>>

NoCat == string1 = <<>> /\ width1 = NoWidth /\ string2 = <<>>

InitFill ==
    /\ entry = "FillParagraphs"
    /\ pc = "fp_call"
    /\ text \in Texts
    /\ width \in 0..MaxWidth
    /\ justify \in {0, 1}
    /\ round = 1
    /\ line = <<>>
    /\ paragraphs = <<>> /\ p = 0 /\ words = <<>> /\ new_par = <<>>
    /\ firstPars = <<>>
    /\ NoTable /\ NoCat

InitJustify ==
    /\ entry = "JustifyLine"
    /\ pc = "jl_while"
    /\ width \in 0..MaxJWidth
    /\ line \in WordLists
    /\ NoFill /\ NoTable /\ NoCat

InitVertCat ==
    /\ entry = "VertCatString"
    /\ pc = "vc_call"
    /\ string1 \in LeftBlocks
    /\ width1 \in {NoWidth} \cup {<<n>> : n \in 0..MaxWidth1}
    /\ string2 \in RightBlocks
    /\ width = 0 /\ line = <<>>
    /\ NoFill /\ NoTable

InitTable ==
    /\ entry = "FormatTable"
    /\ pc = "ft_call"
    /\ tableText \in Tables
    /\ ROW_SPACE \in {1, ROW_SPACE_DEFAULT}
    /\ COL_SPACE \in {1, COL_SPACE_DEFAULT}
    /\ COL_WIDTH \in 1..MaxColWidth
    /\ ft_justify \in {0, 1}
    /\ maxlengths = <<>> /\ formattedTable = <<>> /\ r = 0 /\ c = 0
    /\ retTableText = <<>>
    /\ width = 0 /\ line = <<>>
    /\ NoFill /\ NoCat

Init ==
    /\ InitFill \/ InitJustify
    /\ result = None
    /\ i = <<>>

Next ==
    \/ JustifyStep
    \/ JustifyReturn
    \/ FillSplit
    \/ FillNextParagraph
    \/ FillFlushLine
    \/ FillCallJustify
    \/ FillJustified
    \/ FillAppendWord
    \/ FillLastLine
    \/ FillReturn
    \/ FillAgain

Spec == Init /\ [][Next]_vars

\* the interpreter runs the called function on: it takes every step it can
FairSpec == Spec /\ WF_vars(Next)

InitLayout ==
    /\ InitVertCat \/ InitTable
    /\ result = None
    /\ i = <<>>

\* FormatTable calls FillParagraphs with justify = 0 only, so the steps of
\* JustifyLine are no steps of a table's layout
NextLayout ==
    \/ VertCatCall
    \/ TableWidths
    \/ TableAsGiven
    \/ TableJustify
    \/ TableMapRow
    \/ TableMapCell
    \/ FillSplit
    \/ FillNextParagraph
    \/ FillFlushLine
    \/ FillAppendWord
    \/ FillLastLine
    \/ TableCellFilled
    \/ TableMapRowDone
    \/ TableMapDone
    \/ TableRenderRow
    \/ TableReturn

SpecLayout == InitLayout /\ [][NextLayout]_vars

(***************************************************************************)
(* Notions the properties are stated with.                                 *)
(***************************************************************************)
\* the number of spaces at the end of a word of JustifyLine's line
TrailingSpaces(w) == Len(w) - Len(RStrip(w))

\* the words of a line as they were before JustifyLine appended spaces
Unstretched(ln) == [k \in 1..Len(ln) |-> RStrip(ln[k])]

\* the words of a rendered line joined by single spaces
SingleSpaced(l) == Join(Split(l), <<SP>>)

\* s ends with the list suffix
IsSuffix(suffix, s) ==
    /\ Len(suffix) <= Len(s)
    /\ suffix = SubSeq(s, Len(s) - Len(suffix) + 1, Len(s))

\* the lines of new_par that are not the last line of their paragraph
NonFinalLines ==
    IF pc \in {"fp_while", "jl_while"} THEN new_par
    ELSE IF new_par = <<>> THEN <<>>
    ELSE SubSeq(new_par, 1, Len(new_par) - 1)

FillDone == entry = "FillParagraphs" /\ pc = "done"

JustifyDone == entry = "JustifyLine" /\ pc = "done"

\* C1: every line of FillParagraphs(text, width, 0), width >= 1, is at most
\* width long, unless it is a single word that is itself longer than width.
C1_LinesFit ==
    (FillDone /\ justify = 0 /\ width >= 1) =>
        \A k \in 1..Len(SplitLines(result)) :
            LET l == SplitLines(result)[k]
            IN  Len(l) <= width \/ (Split(l) = <<l>> /\ Len(l) > width)

\* a text was wrapped into a line that fits and a line of a single word that
\* is longer than the width
C1_Witness ==
    /\ FillDone /\ justify = 0 /\ width >= 1 /\ round = 1
    /\ \E k \in 1..Len(SplitLines(result)) : Len(SplitLines(result)[k]) > width
    /\ \E k \in 1..Len(SplitLines(result)) : Len(SplitLines(result)[k]) \in 1..width

\* C2: a justified line is exactly max(width, length of the single-space
\* join of its words) long: the result of JustifyLine on a non-empty word
\* list, and every non-final line of a paragraph filled with justify set.
C2_JustifiedLength ==
    /\ (JustifyDone /\ line # <<>>) =>
           Len(result) = Max(width, Len(Join(Unstretched(line), <<SP>>)))
    /\ (entry = "FillParagraphs" /\ justify = 1) =>
           \A k \in 1..Len(NonFinalLines) :
               Len(NonFinalLines[k]) = Max(width, Len(SingleSpaced(NonFinalLines[k])))

\* FillParagraphs has stretched a line of two words to the width
C2_Witness ==
    /\ entry = "FillParagraphs" /\ justify = 1 /\ pc = "done"
    /\ \E k \in 1..Len(NonFinalLines) :
           /\ Len(Split(NonFinalLines[k])) = 2
           /\ Len(NonFinalLines[k]) = width
           /\ Len(SingleSpaced(NonFinalLines[k])) < width

\* C3: with justify set, the last line of every paragraph is its words joined
\* by single spaces (the words that end the paragraph), never a stretched line.
C3_LastLineUnjustified ==
    (entry = "FillParagraphs" /\ justify = 1 /\ pc = "fp_for" /\ p >= 1) =>
        LET last == new_par[Len(new_par)]
        IN  /\ last = SingleSpaced(last)
            /\ IsSuffix(Split(last), Split(Strip(ReSplitParagraphs(text)[p])))
            /\ IsSuffix(last, paragraphs[p])

\* a paragraph was finished whose last line is shorter than the width, after
\* a line that JustifyLine stretched
C3_Witness ==
    /\ entry = "FillParagraphs" /\ justify = 1 /\ pc = "fp_for" /\ p >= 1
    /\ Len(new_par) >= 2
    /\ Len(new_par[1]) > Len(SingleSpaced(new_par[1]))
    /\ new_par[Len(new_par)] # <<>>
    /\ Len(new_par[Len(new_par)]) < width

\* C4: filling the output of FillParagraphs(text, width, 0) again produces the
\* same paragraphs: as many, each with the same words and the same line breaks.
C4_RefillStable ==
    (FillDone /\ round = 2) => paragraphs = firstPars

\* C9 (safety part): when JustifyLine pops an index for a non-empty line, the
\* index list is not empty and the index is one of a word of the line.
C9_PopIsValid ==
    (pc = "jl_while" /\ line # <<>> /\ NotLongEnough(line, width)) =>
        \A pool \in Refilled(i, line) : pool # <<>> /\ pool[1] \in 0..(Len(line) - 1)

\* C9: for a non-empty line JustifyLine never fails on an index, each loop
\* iteration makes the joined line one character longer, and the call returns;
\* FillParagraphs returns for every text, width and justify flag.
C9_Terminates ==
    /\ []C9_PopIsValid
    /\ []((entry = "FillParagraphs" \/ line # <<>>) => pc # "IndexError")
    /\ [][(JustifyStep /\ line # <<>>) =>
            Len(Join(line', <<SP>>)) = Len(Join(line, <<SP>>)) + 1]_vars
    /\ ((entry = "FillParagraphs" \/ line # <<>>) => <>(pc = "done"))

\* JustifyLine returned a line of one word that it made longer
C9_Witness ==
    /\ JustifyDone
    /\ Len(line) = 1
    /\ TrailingSpaces(line[1]) >= 2

\* C10: in a line of two or more words under justification, the last word has
\* no trailing space and the numbers of spaces in two gaps differ by at most one.
C10_EvenGaps ==
    (pc \in {"jl_while", "done"} /\ entry \in {"JustifyLine", "FillParagraphs"}
        /\ Len(line) >= 2) =>
        /\ TrailingSpaces(line[Len(line)]) = 0
        /\ \A a, b \in 1..(Len(line) - 1) :
               TrailingSpaces(line[a]) - TrailingSpaces(line[b]) \in {-1, 0, 1}
        /\ pc = "done" => result[Len(result)] # SP

\* JustifyLine returned a line of three words after a second round over the gaps
C10_Witness ==
    /\ JustifyDone
    /\ Len(line) = 3
    /\ \E a, b \in 1..2 : TrailingSpaces(line[a]) = 2 /\ TrailingSpaces(line[b]) = 1

\* the k-th of a list of lines, the empty line where the list has none
LineAt(lines, k) == IF k \in 1..Len(lines) THEN lines[k] ELSE <<>>

\* the largest number of a non-empty finite set of numbers
Largest(S) == CHOOSE x \in S : \A y \in S : y <= x

\* the length of the longest cell at index j, over the rows that have the index
ColumnWidth(j) ==
    Largest({Len(tableText[k][j + 1]) : k \in {n \in 1..Len(tableText) : j < Len(tableText[n])}})

\* where cell j starts in a rendered row
RECURSIVE Offset(_)
Offset(j) == IF j = 0 THEN 0 ELSE Offset(j - 1) + ColumnWidth(j - 1) + COL_SPACE

\* C5: with justify set, FormatTable fills every cell with justification on:
\* every non-final line of a cell is at least COL_WIDTH long; without justify
\* the cells are the given ones.
C5_CellsJustified ==
    (entry = "FormatTable" /\ pc = "done") =>
        IF ft_justify # 0
        THEN \A rr \in 1..Len(formattedTable) : \A cc \in 1..Len(formattedTable[rr]) :
                 LET lines == SplitLines(formattedTable[rr][cc])
                 IN  \A k \in 1..(Len(lines) - 1) : Len(lines[k]) >= COL_WIDTH
        ELSE formattedTable = tableText

\* C6: with width1 at least the length of every line of string1, VertCatString
\* returns max(#lines of string1, #lines of string2) lines, line k being line
\* k of string1 padded with spaces to width1 and followed by line k of string2.
C6_SideBySide ==
    LET lines1 == SplitLines(string1)
        lines2 == SplitLines(string2)
        out == SplitLines(result)
    IN  (/\ entry = "VertCatString" /\ pc = "done" /\ width1 # NoWidth
         /\ \A k \in 1..Len(lines1) : Len(lines1[k]) <= width1[1]) =>
            /\ Len(out) = Max(Len(lines1), Len(lines2))
            /\ \A k \in 1..Len(out) :
                   /\ Len(out[k]) = width1[1] + Len(LineAt(lines2, k))
                   /\ SubSeq(out[k], 1, Len(LineAt(lines1, k))) = LineAt(lines1, k)
                   /\ \A j \in (Len(LineAt(lines1, k)) + 1)..width1[1] : out[k][j] = SP
                   /\ SubSeq(out[k], width1[1] + 1, Len(out[k])) = LineAt(lines2, k)
            /\ (string1 = <<"A", "B">> /\ width1 = <<2>> /\ string2 = <<"C", "D">>) =>
                   result = <<"A", "B", "C", "D">>
            /\ (string1 = <<"A">> /\ width1 = <<2>> /\ string2 = <<"C", "D">>) =>
                   result = <<"A", SP, "C", "D">>

\* VertCatString returned for a left block of one short line and a right
\* block of two lines
C6_Witness ==
    /\ entry = "VertCatString" /\ pc = "done"
    /\ string1 = <<"A">> /\ width1 = <<2>> /\ string2 = <<"C", NL, "D">>
    /\ result = <<"A", SP, "C", NL, SP, SP, "D">>

\* the cells of the table are single lines no longer than COL_WIDTH
SingleLineCells ==
    \A rr \in 1..Len(tableText) : \A cc \in 1..Len(tableText[rr]) :
        /\ Len(tableText[rr][cc]) <= COL_WIDTH
        /\ \A k \in 1..Len(tableText[rr][cc]) : tableText[rr][cc][k] # NL

\* C7: without justify and with single-line cells no longer than COL_WIDTH,
\* the width of column j is the length of its longest cell, and in every
\* rendered row cell j starts at the sum over k < j of (width k + COL_SPACE),
\* with nothing but spaces between the cells.
C7_ColumnsAligned ==
    (entry = "FormatTable" /\ pc = "done" /\ ft_justify = 0 /\ SingleLineCells) =>
        /\ DOMAIN maxlengths =
               UNION {0..(Len(tableText[rr]) - 1) : rr \in 1..Len(tableText)}
        /\ \A j \in DOMAIN maxlengths : maxlengths[j] = ColumnWidth(j)
        /\ \A rr \in 1..Len(tableText) :
               LET row == tableText[rr]
                   rendered == LineAt(SplitLines(result), (rr - 1) * ROW_SPACE + 1)
               IN  /\ Len(rendered) = Offset(Len(row) - 1) + Len(row[Len(row)])
                   /\ \A j \in 0..(Len(row) - 1) :
                          SubSeq(rendered, Offset(j) + 1, Offset(j) + Len(row[j + 1]))
                              = row[j + 1]
                   /\ \A j \in 0..(Len(row) - 2) :
                          \A k \in (Offset(j) + Len(row[j + 1]) + 1)..Offset(j + 1) :
                              rendered[k] = SP
        /\ (/\ tableText = << << <<"a">>, <<"b", "b">> >>,
                              << <<"c", "c", "c">>, <<"d">> >> >>
            /\ COL_SPACE = 1 /\ ROW_SPACE = 1) =>
               result = <<"a", SP, SP, SP, "b", "b", NL, "c", "c", "c", SP, "d">>

\* FormatTable returned for the table [["a","bb"],["ccc","d"]], COL_SPACE 1
C7_Witness ==
    /\ entry = "FormatTable" /\ pc = "done" /\ ft_justify = 0 /\ SingleLineCells
    /\ tableText = << << <<"a">>, <<"b", "b">> >>, << <<"c", "c", "c">>, <<"d">> >> >>
    /\ COL_SPACE = 1
    /\ maxlengths[0] = 3 /\ maxlengths[1] = 2

\* C8: FormatTable does not fail with an index fault: a table with a row
\* without cells is refused with an error of its own and is never rendered,
\* and the empty table gives the empty string.
C8_EmptyRowError ==
    entry = "FormatTable" =>
        /\ pc # "IndexError"
        /\ pc = "done" => \A rr \in 1..Len(tableText) : tableText[rr] # <<>>
        /\ (pc = "done" /\ tableText = <<>>) => result = <<>>

====
